---- MODULE Spec2Model ----
(***************************************************************************)
(* Model of main.py (MultiGame Chat Translator): the SimpleLRU cache, the  *)
(* Translator wrapper around the external call, the source adapters, the   *)
(* TranslatorApp start/stop lifecycle, its worker thread and the timer     *)
(* driven _process_queues.                                                 *)
(*                                                                         *)
(* Text is modelled as a sequence of one-character strings, so that        *)
(* str.strip, str.startswith, str.split, int() and f-string concatenation  *)
(* are computed.                                                           *)
(***************************************************************************)
EXTENDS Integers, Sequences, FiniteSets, TLC

VARIABLES
    \* --- a Translator's cache driven directly (CacheSpec) ---
    lru,        \* SimpleLRU.cache of the Translator under check
    recency,    \* history: the keys used so far, least recently used first
    puts,       \* history: the keys put so far, while the run is distinct puts only
    onlyPuts,   \* history: the run so far consists of puts of distinct keys
    lastOp,     \* history: the last cache or translate operation
    prevTr,     \* history: the translate call right before lastOp, if any
    recBefore,  \* history: recency before lastOp
    \* --- TranslatorApp (Spec) ---
    running,          \* self.running
    in_queue,         \* self.in_queue, oldest first
    out_queue,        \* self.out_queue, oldest first
    self_adapter,     \* self.adapter: the adapter object's number, 0 = None
    self_translator,  \* self.translator: the Translator's number, 0 = None
    adp,              \* adapter objects and their threads, by number
    wrk,              \* worker threads (_worker), by number
    caches,           \* Translator.cache.cache, by Translator number
    log,              \* what self.log.append received, oldest first
    overlay,          \* self.overlay_checkbox.isChecked()
    uiPc,             \* the interactive thread: "idle" or inside _process_queues
    nStarts,          \* Translator objects constructed so far
    nItems,           \* items put on in_queue so far
    nToggles,         \* clicks on the overlay checkbox so far
    stopped,          \* history: sessions on which stop ran while running
    \* --- LifeSpec records the calls, TailSpec moves the file; constant elsewhere ---
    call,       \* history: the last call of start or stop, what it found and did
    fdata,      \* the content of the tailed file
    tail        \* by FileAdapter number: where its file object began and is now

cvars == <<lru, recency, puts, onlyPuts, lastOp, prevTr, recBefore>>
pvars == <<running, in_queue, out_queue, self_adapter, self_translator, adp, wrk,
           caches, log, overlay, uiPc, nStarts, nItems, nToggles, stopped>>
xvars == <<call, fdata, tail>>

(***************************************************************************)
(* Bounds of the model.                                                    *)
(***************************************************************************)
\* Capacity of the cache under check (the program builds SimpleLRU(capacity=1500)).
Capacity == 2
\* Number of Translator constructions (start calls that pass the API-key check).
MaxStarts == 2
\* Number of items the adapters put on in_queue in one behaviour.
MaxItems == 2
\* Number of clicks on the overlay checkbox in one behaviour.
MaxToggles == 1
\* Length of the tailed file, in characters.
MaxFile == 4

(***************************************************************************)
(* Text helpers.                                                           *)
(***************************************************************************)
Whitespace == {" ", "\n"}

\* str.startswith(prefix)
StartsWith(s, prefix) ==
    /\ Len(s) >= Len(prefix)
    /\ SubSeq(s, 1, Len(prefix)) = prefix

RECURSIVE LStrip(_)
LStrip(s) ==
    IF s # <<>> /\ Head(s) \in Whitespace THEN LStrip(Tail(s)) ELSE s

RECURSIVE RStrip(_)
RStrip(s) ==
    IF s # <<>> /\ s[Len(s)] \in Whitespace
    THEN RStrip(SubSeq(s, 1, Len(s) - 1))
    ELSE s

\* str.strip()
Strip(s) == RStrip(LStrip(s))

\* str.replace(old, new) for one-character old and new
Replace(s, old, new) == [i \in 1..Len(s) |-> IF s[i] = old THEN new ELSE s[i]]

\* str.split(sep) for a one-character sep
RECURSIVE Split(_, _)
Split(s, sep) ==
    IF \E i \in 1..Len(s) : s[i] = sep
    THEN LET i == CHOOSE i \in 1..Len(s) : s[i] = sep /\ \A j \in 1..(i - 1) : s[j] # sep
         IN  <<SubSeq(s, 1, i - 1)>> \o Split(SubSeq(s, i + 1, Len(s)), sep)
    ELSE <<s>>

\* the in-band marker '__ERROR__'
ERROR_PREFIX == <<"_", "_", "E", "R", "R", "O", "R", "_", "_">>

\* isinstance(item, str) and item.startswith('__ERROR__'): strings are
\* sequences of characters here, tuples (orig, trans) are records.
IsStr(x) == x.type = "str"
Str(s) == [type |-> "str", s |-> s]
Pair(orig, trans) == [type |-> "tuple", orig |-> orig, trans |-> trans]

\* the entries of lang_select the model uses
Spanish == <<"S", "p">>
French == <<"F", "r">>
Languages == {Spanish, French}

(***************************************************************************)
(* SimpleLRU: an OrderedDict, first element = oldest position.             *)
(***************************************************************************)
Absent == [found |-> FALSE, value |-> <<>>]
Found(v) == [found |-> TRUE, value |-> v]

CacheKeys(c) == {c[i].k : i \in 1..Len(c)}

CacheIndex(c, key) == CHOOSE i \in 1..Len(c) : c[i].k = key

\* OrderedDict.move_to_end(key)
MoveToEnd(c, key) ==
    LET i == CacheIndex(c, key)
    IN  SubSeq(c, 1, i - 1) \o SubSeq(c, i + 1, Len(c)) \o <<c[i]>>

\* OrderedDict.__setitem__: an existing key keeps its position
SetItem(c, key, value) ==
    IF key \in CacheKeys(c)
    THEN [c EXCEPT ![CacheIndex(c, key)].v = value]
    ELSE Append(c, [k |-> key, v |-> value])

\* OrderedDict.popitem(last=False)
PopOldest(c) == Tail(c)

\* SimpleLRU.get: the cache afterwards and the value returned
LRUGetNoTouch(c, key) ==
    IF key \in CacheKeys(c)
    THEN [cache |-> c, ret |-> Found(c[CacheIndex(c, key)].v)]
    ELSE [cache |-> c, ret |-> Absent]

LRUGet(c, key) ==
    IF key \in CacheKeys(c)
    THEN [cache |-> MoveToEnd(c, key), ret |-> Found(c[CacheIndex(c, key)].v)]
    ELSE [cache |-> c, ret |-> Absent]

\* SimpleLRU.put
LRUPutNoEvict(c, capacity, key, value) ==
    MoveToEnd(SetItem(c, key, value), key)

LRUPut(c, capacity, key, value) ==
    LET c2 == MoveToEnd(SetItem(c, key, value), key)
    IN  IF Len(c2) > capacity THEN PopOldest(c2) ELSE c2

(***************************************************************************)
(* Translator.translate, split at the external call.                       *)
(***************************************************************************)
\* key = f"{target_language}::{text}"
TranslateKey(text, target_language) == target_language \o <<":", ":">> \o text

\* `if cached:` -- None and the empty string are both falsy
Truthy(ret) == ret.found /\ ret.value # <<>>

\* lines 107-110: the cache lookup; hit = the call returns cached
TranslateLookup(c, text, target_language) ==
    LET g == LRUGet(c, TranslateKey(text, target_language))
    IN  [cache |-> g.cache, hit |-> Truthy(g.ret), value |-> g.ret.value]

\* What the external call can do: raise, or answer with a message content.
\* The content is opaque; the model gives it the target language and the text,
\* or whitespace only.
Responses(text, target_language) ==
    { [ok |-> FALSE, content |-> <<>>],
      [ok |-> TRUE, content |-> <<"[">> \o target_language \o <<"]">> \o text \o <<"\n">>],
      [ok |-> TRUE, content |-> <<" ">>] }

\* f"__ERROR__ Translator: {e}"
TranslatorError ==
    ERROR_PREFIX \o <<" ", "T", "r", "a", "n", "s", "l", "a", "t", "o", "r", ":", " ", "e">>

\* the outcomes the worker threads of Spec meet: a raise, a translation
WorkerResponses(text, target_language) ==
    {r \in Responses(text, target_language) : ~r.ok \/ Strip(r.content) # <<>>}

\* lines 111-122: after the external call returned or raised
TranslateFinish(c, text, target_language, resp) ==
    IF resp.ok
    THEN LET translated == Strip(resp.content)
         IN  [cache |-> LRUPut(c, Capacity, TranslateKey(text, target_language), translated),
              value |-> translated]
    ELSE [cache |-> c, value |-> TranslatorError]

(***************************************************************************)
(* CacheSpec: get, put and translate applied to one Translator's cache in  *)
(* any order, with any keys.                                               *)
(***************************************************************************)
Texts == { <<"g", "g">>, <<"e", "z">> }
PutValues == { <<"v">>, <<>> }
Keys == { TranslateKey(t, l) : t \in Texts, l \in Languages }

NoOp ==
    [op |-> "none", key |-> <<>>, stored |-> FALSE, external |-> FALSE,
     hit |-> FALSE, before |-> <<>>, prevHit |-> <<>>]
NoCall == [valid |-> FALSE, key |-> <<>>, ok |-> FALSE]

\* history: the key the operation before this one read with a hit, if it was a get
PrevHit == IF lastOp.op = "get" /\ lastOp.hit THEN lastOp.key ELSE <<>>

\* history: key becomes the most recently used
Use(r, key) == SelectSeq(r, LAMBDA x : x # key) \o <<key>>

CacheStart ==
    /\ lru = <<>>
    /\ recency = <<>>
    /\ puts = <<>>
    /\ onlyPuts = TRUE
    /\ lastOp = NoOp
    /\ prevTr = NoCall
    /\ recBefore = <<>>

CacheGet(key) ==
    LET g == LRUGet(lru, key)
    IN  /\ lru' = g.cache
        /\ recency' = IF g.ret.found THEN Use(recency, key) ELSE recency
        /\ recBefore' = recency
        /\ UNCHANGED <<pvars, xvars>>
        /\ onlyPuts' = FALSE
        /\ puts' = <<>>
        /\ lastOp' = [op |-> "get", key |-> key, stored |-> FALSE, external |-> FALSE,
                      hit |-> g.ret.found, before |-> lru, prevHit |-> PrevHit]
        /\ prevTr' = NoCall

CachePut(key, value) ==
    /\ lru' = LRUPut(lru, Capacity, key, value)
    /\ recency' = Use(recency, key)
    /\ recBefore' = recency
    /\ UNCHANGED <<pvars, xvars>>
    /\ onlyPuts' = (onlyPuts /\ key \notin CacheKeys(lru) /\ Len(puts) <= Capacity)
    /\ puts' = IF onlyPuts' THEN Append(puts, key) ELSE <<>>
    /\ lastOp' = [op |-> "put", key |-> key, stored |-> TRUE, external |-> FALSE,
                  hit |-> FALSE, before |-> lru, prevHit |-> PrevHit]
    /\ prevTr' = NoCall

\* One whole call of Translator.translate; resp is what the external call
\* does if it is issued.
Translate(text, target_language, resp) ==
    LET key == TranslateKey(text, target_language)
        look == TranslateLookup(lru, text, target_language)
        fin == TranslateFinish(look.cache, text, target_language, resp)
        external == ~look.hit
        stored == external /\ resp.ok
        found == key \in CacheKeys(lru)
    IN  /\ lru' = IF external THEN fin.cache ELSE look.cache
        /\ recency' = IF found \/ stored THEN Use(recency, key) ELSE recency
        /\ recBefore' = recency
        /\ UNCHANGED <<pvars, xvars>>
        /\ onlyPuts' = FALSE
        /\ puts' = <<>>
        /\ lastOp' = [op |-> "translate", key |-> key, stored |-> stored,
                      external |-> external, hit |-> look.hit, before |-> lru,
                      prevHit |-> PrevHit]
        /\ prevTr' = IF lastOp.op = "translate"
                     THEN [valid |-> TRUE, key |-> lastOp.key,
                           ok |-> lastOp.hit \/ lastOp.stored]
                     ELSE NoCall

CacheNext ==
    \/ \E key \in Keys : CacheGet(key)
    \/ \E key \in Keys, value \in PutValues : CachePut(key, value)
    \/ \E t \in Texts, l \in Languages : \E resp \in Responses(t, l) : Translate(t, l, resp)


(***************************************************************************)
(* TranslatorApp and its threads.                                          *)
(***************************************************************************)
Ids == 1..MaxStarts

\* isinstance(item, str) and item.startswith('__ERROR__')
IsErrorSignal(obj) == IsStr(obj) /\ StartsWith(obj.s, ERROR_PREFIX)

\* f"__ERROR__ FileAdapter: {e}" and its siblings, the component name shortened
AdapterError(kind) ==
    Str(ERROR_PREFIX \o <<" ">> \o
        (CASE kind = "file" -> <<"F", "i", "l", "e">>
           [] kind = "ocr" -> <<"O", "C", "R">>
           [] OTHER -> <<"C", "l", "i", "p">>) \o <<":", " ", "e">>)

\* An entry of in_queue: the object put, and its history (number, the session
\* whose adapter put it, and whether the adapter put it as a line or as an error).
InItem(obj, id, sess, tag) == [obj |-> obj, id |-> id, sess |-> sess, tag |-> tag]
NoItem == InItem(Str(<<>>), 0, 0, "none")

\* An entry of out_queue: the object put, and its history (the in_queue entry
\* it comes from, the language the worker translated into, whether translate
\* failed).
OutItem(obj, item, lang, failed) ==
    [obj |-> obj, id |-> item.id, sess |-> item.sess, tag |-> item.tag,
     lang |-> lang, failed |-> failed]

\* line 251: self.out_queue.put((item, translated))
WorkerResult(item, translated) == Pair(item, translated)

\* lines 245-246: on queue.Empty the worker goes back to the loop test
OnEmptyBreak == "done"

OnEmpty == "top"

ErrorTag == <<"[", "E", "r", "r", "o", "r", "]", " ">>
OrigTag == <<"[", "O", "R", "I", "G", "]", " ">>
TranslationTag == <<"\n", "[", "T", "R", "A", "N", "S", "L", "A", "T", "I", "O", "N", "]", " ">>
SystemStarted(adapter_name) == <<"[", "S", "y", "s", "t", "e", "m", "]", " ", "S", "t", "a", "r", "t", "e", "d", " ", adapter_name>>
SystemStopped == <<"[", "S", "y", "s", "t", "e", "m", "]", " ", "S", "t", "o", "p", "p", "e", "d", ".">>

\* lines 256-263: the text _process_queues appends for one object
RenderText(obj, compact) ==
    IF IsErrorSignal(obj)
    THEN ErrorTag \o obj.s
    ELSE IF compact
         THEN obj.trans
         ELSE OrigTag \o obj.orig \o TranslationTag \o obj.trans \o <<"\n">>

\* the session running now, 0 if none
CurrentSession == IF running THEN self_adapter ELSE 0

NoThread == [pc |-> "none", lang |-> <<>>, item |-> NoItem, tr |-> 0]
NoAdapter == [kind |-> "none", pc |-> "none", stop |-> FALSE, last |-> Absent]

\* the state right after TranslatorApp.__init__
AppStart ==
    /\ running = FALSE
    /\ in_queue = <<>>
    /\ out_queue = <<>>
    /\ self_adapter = 0
    /\ self_translator = 0
    /\ adp = [i \in Ids |-> NoAdapter]
    /\ wrk = [i \in Ids |-> NoThread]
    /\ caches = [i \in Ids |-> <<>>]
    /\ log = <<>>
    /\ overlay = FALSE
    /\ uiPc = "idle"
    /\ nStarts = 0
    /\ nItems = 0
    /\ nToggles = 0
    /\ stopped = {}

\* no call of start or stop yet
NoHandler ==
    [op |-> "none", wasRunning |-> FALSE, invalid |-> FALSE,
     threads |-> 0, changed |-> {}, after |-> FALSE]

\* no file object yet
NoTail == [began |-> 0, pos |-> 0]

\* the tailed file holds one of `contents` when the application comes up
FileStart(contents) ==
    /\ call = NoHandler
    /\ fdata \in contents
    /\ tail = [i \in Ids |-> NoTail]

Init == CacheStart /\ AppStart /\ FileStart({<<>>})

CacheInit == AppStart /\ CacheStart /\ FileStart({<<>>})

(***************************************************************************)
(* start and stop (interactive thread).                                    *)
(***************************************************************************)
\* What source_input.text().strip() can give: nothing, a path or four integers,
\* the same with a blank inside, three integers, a field that is no integer, an
\* empty field.
Sources ==
    { <<>>,
      <<"1", ",", "2", ",", "3", ",", "4">>,
      <<"1", ",", " ", "2", ",", "3", ",", "4">>,
      <<"1", ",", "2", ",", "3">>,
      <<"1", ",", "x", ",", "3", ",", "4">>,
      <<"1", ",", ",", "3", ",", "4">> }

\* What start reads from the widgets and the environment: whether an API key is
\* there (typed or in OPENAI_API_KEY), the adapter chosen (adapter_select offers
\* these three, line 140), the source text, whether os.path.exists(source), and
\* the target language.
Configs ==
    [api_key : BOOLEAN, adapter_name : {"file", "ocr", "clipboard"},
     source : Sources, exists : BOOLEAN, target_language : Languages]

Digits == {"0", "1", "2", "3", "4", "5", "6", "7", "8", "9"}

\* int(p.strip()) does not raise
ParsesInt(p) ==
    LET t == Strip(p)
        d == IF t # <<>> /\ Head(t) \in {"-", "+"} THEN Tail(t) ELSE t
    IN  d # <<>> /\ \A i \in 1..Len(d) : d[i] \in Digits

\* lines 208-212: the bbox text gives four integers
ParsesBBox(source) ==
    LET parts == Split(source, ",")
    IN  (\A i \in 1..Len(parts) : ParsesInt(parts[i])) /\ Len(parts) = 4

\* a start that takes any source
SourceAcceptedAny(cfg) == TRUE

\* lines 199-220: the checks of the source, by adapter
SourceAccepted(cfg) ==
    CASE cfg.adapter_name = "file" -> cfg.source # <<>> /\ cfg.exists
      [] cfg.adapter_name = "ocr" -> cfg.source # <<>> /\ ParsesBBox(cfg.source)
      [] cfg.adapter_name = "clipboard" -> TRUE
      [] OTHER -> FALSE

\* a start that does not look at self.running
AlreadyRunningNever == FALSE

\* line 189: if self.running: return
AlreadyRunning == running

\* the adapter object start constructs
NewAdapter(adapter_name) ==
    [kind |-> adapter_name,
     pc |-> IF adapter_name = "file" THEN "open" ELSE "loop",
     stop |-> FALSE,
     last |-> IF adapter_name = "ocr" THEN Found(<<>>) ELSE Absent]

\* An entry of the log: the text appended, and its history (the out_queue entry
\* rendered, the checkbox and the running session at that moment).
LogEntry(text, o, mode) ==
    [text |-> text, id |-> o.id, sess |-> o.sess, tag |-> o.tag, failed |-> o.failed,
     compact |-> mode, at |-> CurrentSession]
SystemEntry(text) ==
    [text |-> text, id |-> 0, sess |-> 0, tag |-> "system", failed |-> FALSE,
     compact |-> FALSE, at |-> 0]

Start(cfg) ==
    /\ uiPc = "idle"
    /\ UNCHANGED <<cvars, fdata, tail, in_queue, out_queue, caches, overlay, uiPc, nItems, nToggles, stopped>>
    /\ IF AlreadyRunning \/ ~cfg.api_key
       THEN UNCHANGED <<running, self_adapter, self_translator, adp, wrk, log, nStarts>>
       ELSE /\ nStarts < MaxStarts
            /\ nStarts' = nStarts + 1
            /\ self_translator' = nStarts + 1
            /\ IF ~SourceAccepted(cfg)
               THEN UNCHANGED <<running, self_adapter, adp, wrk, log>>
               ELSE /\ self_adapter' = nStarts + 1
                    /\ adp' = [adp EXCEPT ![nStarts + 1] = NewAdapter(cfg.adapter_name)]
                    /\ running' = TRUE
                    /\ wrk' = [wrk EXCEPT ![nStarts + 1] =
                                 [pc |-> "top", lang |-> cfg.target_language,
                                  item |-> NoItem, tr |-> 0]]
                    /\ log' = Append(log, SystemEntry(SystemStarted(cfg.adapter_name)))

Stop ==
    /\ uiPc = "idle"
    /\ UNCHANGED <<cvars, fdata, tail, in_queue, out_queue, self_adapter, self_translator, wrk,
                   caches, overlay, uiPc, nStarts, nItems, nToggles>>
    /\ IF ~running
       THEN UNCHANGED <<running, adp, log, stopped>>
       ELSE /\ running' = FALSE
            /\ adp' = IF self_adapter # 0
                      THEN [adp EXCEPT ![self_adapter].stop = TRUE]
                      ELSE adp
            /\ stopped' = stopped \cup {self_adapter}
            /\ log' = Append(log, SystemEntry(SystemStopped))

ToggleOverlay ==
    /\ uiPc = "idle"
    /\ nToggles < MaxToggles
    /\ nToggles' = nToggles + 1
    /\ overlay' = ~overlay
    /\ UNCHANGED <<cvars, xvars, running, in_queue, out_queue, self_adapter, self_translator,
                   adp, wrk, caches, log, uiPc, nStarts, nItems, stopped>>

(***************************************************************************)
(* _process_queues, one loop iteration per step: the worker may put while  *)
(* the loop runs, no other handler of the interactive thread can.          *)
(***************************************************************************)
\* a drain that calls get without asking empty() first: it waits for an item
ProcessQueuesBlocking ==
    /\ UNCHANGED <<cvars, xvars, running, in_queue, self_adapter, self_translator, adp, wrk,
                   caches, overlay, nStarts, nItems, nToggles, stopped>>
    /\ out_queue # <<>>
    /\ uiPc' = "drain"
    /\ out_queue' = Tail(out_queue)
    /\ log' = Append(log, LogEntry(RenderText(Head(out_queue).obj, overlay),
                                   Head(out_queue), overlay))

ProcessQueues ==
    /\ UNCHANGED <<cvars, xvars, running, in_queue, self_adapter, self_translator, adp, wrk,
                   caches, overlay, nStarts, nItems, nToggles, stopped>>
    /\ IF out_queue = <<>>
       THEN /\ uiPc' = "idle"
            /\ UNCHANGED <<out_queue, log>>
       ELSE /\ uiPc' = "drain"
            /\ out_queue' = Tail(out_queue)
            /\ log' = Append(log, LogEntry(RenderText(Head(out_queue).obj, overlay),
                                           Head(out_queue), overlay))

(***************************************************************************)
(* _worker (worker thread w).                                              *)
(***************************************************************************)
\* line 242: while self.running
WorkerLoop(w) ==
    /\ wrk[w].pc = "top"
    /\ wrk' = [wrk EXCEPT ![w].pc = IF running THEN "get" ELSE "done"]
    /\ UNCHANGED <<cvars, xvars, running, in_queue, out_queue, self_adapter, self_translator,
                   adp, caches, log, overlay, uiPc, nStarts, nItems, nToggles, stopped>>

\* lines 243-249: the bounded wait on in_queue, and the forwarding of an error
WorkerGet(w) ==
    /\ wrk[w].pc = "get"
    /\ UNCHANGED <<cvars, xvars, running, self_adapter, self_translator, adp, caches, log,
                   overlay, uiPc, nStarts, nItems, nToggles, stopped>>
    /\ IF in_queue = <<>>
       THEN /\ wrk' = [wrk EXCEPT ![w].pc = OnEmpty]
            /\ UNCHANGED <<in_queue, out_queue>>
       ELSE /\ in_queue' = Tail(in_queue)
            /\ IF IsErrorSignal(Head(in_queue).obj)
               THEN /\ out_queue' = Append(out_queue,
                          OutItem(Head(in_queue).obj, Head(in_queue), <<>>, FALSE))
                    /\ wrk' = [wrk EXCEPT ![w].pc = "top"]
               ELSE /\ wrk' = [wrk EXCEPT ![w].pc = "translate", ![w].item = Head(in_queue)]
                    /\ UNCHANGED out_queue

\* out_queue after line 251
PutResult(w, translated, failed) ==
    Append(out_queue,
           OutItem(WorkerResult(wrk[w].item.obj.s, translated), wrk[w].item,
                   wrk[w].lang, failed))

\* line 250 up to the external call: self.translator is read now
WorkerTranslate(w) ==
    /\ wrk[w].pc = "translate"
    /\ LET look == TranslateLookup(caches[self_translator], wrk[w].item.obj.s, wrk[w].lang)
       IN  /\ caches' = [caches EXCEPT ![self_translator] = look.cache]
           /\ IF look.hit
              THEN /\ out_queue' = PutResult(w, look.value, FALSE)
                   /\ wrk' = [wrk EXCEPT ![w].pc = "top", ![w].item = NoItem]
              ELSE /\ wrk' = [wrk EXCEPT ![w].pc = "extcall", ![w].tr = self_translator]
                   /\ UNCHANGED out_queue
    /\ UNCHANGED <<cvars, xvars, running, in_queue, self_adapter, self_translator, adp, log,
                   overlay, uiPc, nStarts, nItems, nToggles, stopped>>

\* the external call returns or raises; lines 119-122 and 251-252
WorkerExtReturn(w, resp) ==
    /\ wrk[w].pc = "extcall"
    /\ LET fin == TranslateFinish(caches[wrk[w].tr], wrk[w].item.obj.s, wrk[w].lang, resp)
       IN  /\ caches' = [caches EXCEPT ![wrk[w].tr] = fin.cache]
           /\ out_queue' = PutResult(w, fin.value, ~resp.ok)
    /\ wrk' = [wrk EXCEPT ![w].pc = "top", ![w].item = NoItem, ![w].tr = 0]
    /\ UNCHANGED <<cvars, xvars, running, in_queue, self_adapter, self_translator, adp, log,
                   overlay, uiPc, nStarts, nItems, nToggles, stopped>>

WorkerStep(w) ==
    \/ WorkerLoop(w)
    \/ WorkerGet(w)
    \/ WorkerTranslate(w)
    \/ \E resp \in WorkerResponses(wrk[w].item.obj.s, wrk[w].lang) : WorkerExtReturn(w, resp)

(***************************************************************************)
(* The adapters' run loops (adapter thread a).                             *)
(***************************************************************************)
\* out_queue.put of the texts, in order, by adapter a
RECURSIVE PutAll(_, _, _, _, _)
PutAll(q, texts, n, a, tag) ==
    IF texts = <<>> THEN q
    ELSE PutAll(Append(q, InItem(Str(Head(texts)), n + 1, a, tag)), Tail(texts), n + 1, a, tag)

\* every loop of the three adapters starts with `while not self._stop`
AdapterLoop(a) ==
    /\ adp[a].pc = "loop"
    /\ adp' = [adp EXCEPT ![a].pc = IF adp[a].stop THEN "done" ELSE "body"]
    /\ UNCHANGED <<cvars, xvars, running, in_queue, out_queue, self_adapter, self_translator,
                   wrk, caches, log, overlay, uiPc, nStarts, nItems, nToggles, stopped>>

\* FileAdapter.run lines 41-43 and 50-51: open and seek to the end, or fail
FileOpen(a, ok) ==
    /\ adp[a].kind = "file" /\ adp[a].pc = "open"
    /\ IF ok
       THEN /\ adp' = [adp EXCEPT ![a].pc = "loop"]
            /\ UNCHANGED <<in_queue, nItems>>
       ELSE /\ nItems < MaxItems
            /\ in_queue' = Append(in_queue, InItem(AdapterError("file"), nItems + 1, a, "ErrorSignal"))
            /\ nItems' = nItems + 1
            /\ adp' = [adp EXCEPT ![a].pc = "done"]
    /\ UNCHANGED <<cvars, call, running, out_queue, self_adapter, self_translator, wrk, caches,
                   log, overlay, uiPc, nStarts, nToggles, stopped>>

\* What f.readline() can give: a line ending in a newline, the rest of the file
\* when its last line has no newline yet, '' at the end of the file; or it raises.
FileLines ==
    { <<"g", "g", "\n">>, <<"\n">>, <<" ", "e", "z">>, ERROR_PREFIX \o <<"g", "g", "\n">> }
FileReads ==
    {[ok |-> TRUE, line |-> l] : l \in FileLines \cup {<<>>}}
        \cup {[ok |-> FALSE, line |-> <<>>]}

\* a loop body that goes on polling after readline raised, as the other two
\* adapters do
FileReadRetry(a, r) ==
    /\ adp[a].kind = "file" /\ adp[a].pc = "body"
    /\ IF r.ok /\ r.line = <<>>
       THEN /\ adp' = [adp EXCEPT ![a].pc = "loop"]
            /\ UNCHANGED <<in_queue, nItems>>
       ELSE /\ nItems < MaxItems
            /\ nItems' = nItems + 1
            /\ adp' = [adp EXCEPT ![a].pc = "loop"]
            /\ in_queue' = Append(in_queue,
                               IF r.ok THEN InItem(Str(Strip(r.line)), nItems + 1, a, "Line")
                               ELSE InItem(AdapterError("file"), nItems + 1, a, "ErrorSignal"))
    /\ UNCHANGED <<cvars, call, running, out_queue, self_adapter, self_translator, wrk, caches,
                   log, overlay, uiPc, nStarts, nToggles, stopped>>

\* FileAdapter.run lines 45-51: one loop body
FileRead(a, r) ==
    /\ adp[a].kind = "file" /\ adp[a].pc = "body"
    /\ IF r.ok /\ r.line = <<>>
       THEN /\ adp' = [adp EXCEPT ![a].pc = "loop"]
            /\ UNCHANGED <<in_queue, nItems>>
       ELSE /\ nItems < MaxItems
            /\ nItems' = nItems + 1
            /\ IF r.ok
               THEN /\ in_queue' = Append(in_queue, InItem(Str(Strip(r.line)), nItems + 1, a, "Line"))
                    /\ adp' = [adp EXCEPT ![a].pc = "loop"]
               ELSE /\ in_queue' = Append(in_queue, InItem(AdapterError("file"), nItems + 1, a, "ErrorSignal"))
                    /\ adp' = [adp EXCEPT ![a].pc = "done"]
    /\ UNCHANGED <<cvars, call, running, out_queue, self_adapter, self_translator, wrk, caches,
                   log, overlay, uiPc, nStarts, nToggles, stopped>>

\* line 65-66: the non-empty stripped lines of an OCR text
OcrLines(text) ==
    LET parts == Split(Replace(text, "\r", "\n"), "\n")
        stripped == [i \in 1..Len(parts) |-> Strip(parts[i])]
    IN  SelectSeq(stripped, LAMBDA l : l # <<>>)

\* lines 67-70: the lines put and the last text afterwards
RECURSIVE OcrEmit(_, _)
OcrEmit(last, lines) ==
    IF lines = <<>> THEN [out |-> <<>>, last |-> last]
    ELSE IF Head(lines) # last
         THEN LET rest == OcrEmit(Head(lines), Tail(lines))
              IN  [out |-> <<Head(lines)>> \o rest.out, last |-> rest.last]
         ELSE OcrEmit(last, Tail(lines))

\* What pytesseract.image_to_string can give; or the capture raises.
OcrTexts == { <<"g", "g", "\r", "\n">>, <<"g", "g", "\n", " ", "e", "z">> }
OcrReads == {[ok |-> TRUE, text |-> t] : t \in OcrTexts} \cup {[ok |-> FALSE, text |-> <<>>]}

\* OCRAdapter.run lines 63-74: one loop body
OcrRead(a, r) ==
    /\ adp[a].kind = "ocr" /\ adp[a].pc = "body"
    /\ IF r.ok
       THEN LET e == OcrEmit(adp[a].last.value, OcrLines(r.text))
            IN  /\ nItems + Len(e.out) <= MaxItems
                /\ in_queue' = PutAll(in_queue, e.out, nItems, a, "Line")
                /\ nItems' = nItems + Len(e.out)
                /\ adp' = [adp EXCEPT ![a].pc = "loop", ![a].last = Found(e.last)]
       ELSE /\ nItems < MaxItems
            /\ in_queue' = Append(in_queue, InItem(AdapterError("ocr"), nItems + 1, a, "ErrorSignal"))
            /\ nItems' = nItems + 1
            /\ adp' = [adp EXCEPT ![a].pc = "loop"]
    /\ UNCHANGED <<cvars, xvars, running, out_queue, self_adapter, self_translator, wrk, caches,
                   log, overlay, uiPc, nStarts, nToggles, stopped>>

\* What pyperclip.paste() can give; or it raises.
ClipTexts == { <<"g", "g">>, <<"g", "g", " ">>, <<" ">> }
ClipReads == {[ok |-> TRUE, text |-> t] : t \in ClipTexts} \cup {[ok |-> FALSE, text |-> <<>>]}

\* line 87: txt.strip() and txt != self._last
ClipEmits(last, txt) == Strip(txt) # <<>> /\ Found(txt) # last

\* ClipboardAdapter.run lines 85-93: one loop body
ClipRead(a, r) ==
    /\ adp[a].kind = "clipboard" /\ adp[a].pc = "body"
    /\ IF r.ok /\ ~ClipEmits(adp[a].last, r.text)
       THEN /\ adp' = [adp EXCEPT ![a].pc = "loop"]
            /\ UNCHANGED <<in_queue, nItems>>
       ELSE /\ nItems < MaxItems
            /\ nItems' = nItems + 1
            /\ IF r.ok
               THEN /\ in_queue' = Append(in_queue, InItem(Str(Strip(r.text)), nItems + 1, a, "Line"))
                    /\ adp' = [adp EXCEPT ![a].pc = "loop", ![a].last = Found(r.text)]
               ELSE /\ in_queue' = Append(in_queue, InItem(AdapterError("clipboard"), nItems + 1, a, "ErrorSignal"))
                    /\ adp' = [adp EXCEPT ![a].pc = "loop"]
    /\ UNCHANGED <<cvars, xvars, running, out_queue, self_adapter, self_translator, wrk, caches,
                   log, overlay, uiPc, nStarts, nToggles, stopped>>

\* the file-tail adapter's thread, the file being what `reads` says
FileStep(a, reads) ==
    \/ AdapterLoop(a)
    \/ \E ok \in BOOLEAN : FileOpen(a, ok) /\ UNCHANGED <<fdata, tail>>
    \/ \E r \in reads : FileRead(a, r) /\ UNCHANGED <<fdata, tail>>

(***************************************************************************)
(* The specifications.                                                     *)
(*                                                                         *)
(* Spec is the application run with the file-tail adapter and one target   *)
(* language: any start, stop, checkbox click and timer tick of the         *)
(* interactive thread, interleaved with every step of the adapter and      *)
(* worker threads. The file gives a chat line, a chat line that begins     *)
(* with the error marker, nothing new, or a read error.                    *)
(***************************************************************************)
vars == <<cvars, pvars, xvars>>

TailConfigs ==
    {cfg \in Configs : cfg.adapter_name = "file" /\ cfg.target_language = Spanish}

TailReads ==
    {r \in FileReads : r.line \in {<<>>, <<"g", "g", "\n">>, ERROR_PREFIX \o <<"g", "g", "\n">>}}

Next ==
    \/ \E cfg \in TailConfigs : Start(cfg) /\ UNCHANGED call
    \/ Stop /\ UNCHANGED call
    \/ ToggleOverlay
    \/ ProcessQueues
    \/ \E w \in Ids : WorkerStep(w)
    \/ \E a \in Ids : FileStep(a, TailReads)

Spec == Init /\ [][Next]_vars

(***************************************************************************)
(* FairSpec: the same application with the checkbox left alone, under the  *)
(* scheduling the program relies on: a started thread keeps taking steps   *)
(* (an external call in progress returns), and the QTimer keeps firing     *)
(* _process_queues. start and stop are the user's and are not forced.      *)
(***************************************************************************)
FairNext ==
    \/ \E cfg \in TailConfigs : Start(cfg) /\ UNCHANGED call
    \/ Stop /\ UNCHANGED call
    \/ ProcessQueues
    \/ \E w \in Ids : WorkerStep(w)
    \/ \E a \in Ids : FileStep(a, TailReads)

FairSpec ==
    /\ Init
    /\ [][FairNext]_vars
    /\ WF_vars(ProcessQueues)
    /\ \A w \in Ids : WF_vars(WorkerStep(w))
    /\ \A a \in Ids : WF_vars(FileStep(a, TailReads))

CacheSpec == CacheInit /\ [][CacheNext]_vars

(***************************************************************************)
(* AdapterSpec: the three adapters with everything their sources can give, *)
(* started and stopped by the user, while the worker and the timer are not *)
(* scheduled: in_queue then holds all that the adapters emitted, in order. *)
(***************************************************************************)
AdapterNext ==
    \/ \E cfg \in {c \in Configs : c.target_language = Spanish} : Start(cfg) /\ UNCHANGED call
    \/ Stop /\ UNCHANGED call
    \/ \E a \in Ids : FileStep(a, FileReads)
    \/ \E a \in Ids : \E r \in OcrReads : OcrRead(a, r)
    \/ \E a \in Ids : \E r \in ClipReads : ClipRead(a, r)

AdapterSpec == Init /\ [][AdapterNext]_vars

(***************************************************************************)
(* LifeSpec: start with everything the widgets can hold and stop, each     *)
(* call leaving a record of what it found and did, interleaved with the    *)
(* threads of the three adapters. start and stop read nothing the worker   *)
(* or the timer writes, and these two are not scheduled here.              *)
(***************************************************************************)
\* the threads a step starts
ThreadsStarted ==
    Cardinality({i \in Ids : adp[i].pc = "none" /\ adp'[i].pc # "none"})
        + Cardinality({i \in Ids : wrk[i].pc = "none" /\ wrk'[i].pc # "none"})

\* what a step changes, by name
StepChanges ==
    (IF running' # running THEN {"running"} ELSE {})
        \cup (IF self_adapter' # self_adapter THEN {"adapter"} ELSE {})
        \cup (IF self_translator' # self_translator THEN {"translator"} ELSE {})
        \cup (IF adp' # adp \/ wrk' # wrk THEN {"threads"} ELSE {})
        \cup (IF log' # log THEN {"log"} ELSE {})
        \cup (IF <<in_queue, out_queue, caches, overlay>>' # <<in_queue, out_queue, caches, overlay>>
              THEN {"other"} ELSE {})

\* f is an integer in decimal, blanks around it allowed
IsIntText(f) ==
    \E lo, hi \in 1..Len(f) :
        /\ lo <= hi
        /\ \A i \in 1..(lo - 1) : f[i] \in Whitespace
        /\ \A i \in (hi + 1)..Len(f) : f[i] \in Whitespace
        /\ \A i \in lo..hi : f[i] \in Digits \/ (i = lo /\ i < hi /\ f[i] \in {"-", "+"})

\* s is left,top,right,bottom: four integers, three commas
WellFormedBBox(s) ==
    \E a, b, c \in 1..Len(s) :
        /\ a < b /\ b < c
        /\ {i \in 1..Len(s) : s[i] = ","} = {a, b, c}
        /\ IsIntText(SubSeq(s, 1, a - 1))
        /\ IsIntText(SubSeq(s, a + 1, b - 1))
        /\ IsIntText(SubSeq(s, b + 1, c - 1))
        /\ IsIntText(SubSeq(s, c + 1, Len(s)))

\* a configuration start must refuse: no credential, no path or no such file,
\* no bounding box or a malformed one
InvalidConfig(cfg) ==
    \/ ~cfg.api_key
    \/ cfg.adapter_name = "file" /\ (cfg.source = <<>> \/ ~cfg.exists)
    \/ cfg.adapter_name = "ocr" /\ ~WellFormedBBox(cfg.source)

\* the record a call of start or stop leaves: whether the application was
\* running, whether the call was a start, while idle, with an invalid
\* configuration, and what the call did
Called(op, invalid) ==
    call' = [op |-> op, wasRunning |-> running, invalid |-> ~running /\ invalid,
             threads |-> ThreadsStarted, changed |-> StepChanges, after |-> running']

LifeConfigs == {c \in Configs : c.target_language = Spanish}

LifeNext ==
    \/ \E cfg \in LifeConfigs : Start(cfg) /\ Called("start", InvalidConfig(cfg))
    \/ Stop /\ Called("stop", FALSE)
    \/ \E a \in Ids : FileStep(a, TailReads)
    \/ \E a \in Ids : \E r \in OcrReads : OcrRead(a, r)
    \/ \E a \in Ids : \E r \in ClipReads : ClipRead(a, r)

LifeSpec == Init /\ [][LifeNext]_vars

(***************************************************************************)
(* TailSpec: the file-tail adapter reading a file that other programs      *)
(* append to. The file holds something or nothing when the application     *)
(* comes up; a write appends a whole line, a blank line, or a piece of a    *)
(* line whose newline comes with a later write. The worker and the timer   *)
(* are not scheduled: in_queue holds all that the adapters emitted.        *)
(***************************************************************************)
\* what the file holds before the first start
InitialFiles == { <<>>, <<"o", "\n">>, <<"o">> }

\* what one write appends
Chunks == { <<"g">>, <<"g", "\n">>, <<"\n">> }

\* another program appends to the file
AppendFile(chunk) ==
    /\ Len(fdata) + Len(chunk) <= MaxFile
    /\ fdata' = fdata \o chunk
    /\ UNCHANGED <<cvars, pvars, call, tail>>

\* f.readline() at position pos: up to and including the next newline, or the
\* rest of the file, or '' at the end of the file
ReadLine(data, pos) ==
    LET rest == SubSeq(data, pos + 1, Len(data))
    IN  IF \E i \in 1..Len(rest) : rest[i] = "\n"
        THEN SubSeq(rest, 1, CHOOSE i \in 1..Len(rest) :
                                 rest[i] = "\n" /\ \A j \in 1..(i - 1) : rest[j] # "\n")
        ELSE rest

\* lines 42-43: open, and f.seek(0, os.SEEK_END); or open raises
TailOpen(a, ok) ==
    /\ FileOpen(a, ok)
    /\ tail' = IF ok THEN [tail EXCEPT ![a] = [began |-> Len(fdata), pos |-> Len(fdata)]]
                ELSE tail
    /\ UNCHANGED fdata

\* lines 45-49 on the file as it is now; or readline raises
TailRead(a, ok) ==
    LET line == IF ok THEN ReadLine(fdata, tail[a].pos) ELSE <<>>
    IN  /\ FileRead(a, [ok |-> ok, line |-> line])
        /\ tail' = [tail EXCEPT ![a].pos = @ + Len(line)]
        /\ UNCHANGED fdata

TailStep(a) ==
    \/ AdapterLoop(a)
    \/ \E ok \in BOOLEAN : TailOpen(a, ok)
    \/ \E ok \in BOOLEAN : TailRead(a, ok)

TailInit == CacheStart /\ AppStart /\ FileStart(InitialFiles)

TailNext ==
    \/ \E cfg \in TailConfigs : Start(cfg) /\ UNCHANGED call
    \/ Stop /\ UNCHANGED call
    \/ \E chunk \in Chunks : AppendFile(chunk)
    \/ \E a \in Ids : TailStep(a)

TailSpec == TailInit /\ [][TailNext]_vars

(***************************************************************************)
(* LangSpec: the application with the file-tail adapter and both target    *)
(* languages on offer at every start; the timer is not scheduled, so       *)
(* out_queue holds all that the workers put.                               *)
(***************************************************************************)
LangConfigs == {cfg \in Configs : cfg.adapter_name = "file"}

LangNext ==
    \/ \E cfg \in LangConfigs : Start(cfg) /\ UNCHANGED call
    \/ Stop /\ UNCHANGED call
    \/ \E w \in Ids : WorkerStep(w)
    \/ \E a \in Ids : FileStep(a, TailReads)

LangSpec == Init /\ [][LangNext]_vars

(***************************************************************************)
(* Properties of the cache and of translate (CacheSpec).                   *)
(***************************************************************************)
\* the keys the last operation removed from the cache
Evicted ==
    (CacheKeys(lastOp.before) \cup (IF lastOp.stored THEN {lastOp.key} ELSE {}))
        \ CacheKeys(lru)

\* the key of `present` used least recently according to the history r
LeastRecent(r, present) ==
    r[CHOOSE i \in 1..Len(r) :
        /\ r[i] \in present
        /\ \A j \in 1..(i - 1) : r[j] \notin present]

\* C6: a translate call whose arguments equal those of the translate call
\* right before it issues no external call. Stated for a first call that
\* returned a translation (found in the cache, or fetched and stored), the
\* outcome the cache exists for.
C6_SecondCallNoExternal ==
    (lastOp.op = "translate" /\ prevTr.valid /\ prevTr.ok /\ prevTr.key = lastOp.key)
        => ~lastOp.external

\* C7: the cache never holds more than Capacity entries (one per key), and an
\* operation removes an entry exactly when it stores a new key into a full
\* cache, and then it removes exactly one.
C7_CapacityBound ==
    /\ Len(lru) <= Capacity
    /\ Cardinality(CacheKeys(lru)) = Len(lru)
    /\ Cardinality(Evicted) =
           IF /\ lastOp.stored
              /\ Len(lastOp.before) = Capacity
              /\ lastOp.key \notin CacheKeys(lastOp.before)
           THEN 1 ELSE 0

C7_Witness ==
    /\ lastOp.op = "put"
    /\ Len(lastOp.before) = Capacity
    /\ lastOp.key \notin CacheKeys(lastOp.before)
    /\ Cardinality(Evicted) = 1

\* C8: an evicted entry is the one used least recently, a get that hits and a
\* put both counting as a use; and after Capacity+1 puts of distinct keys into
\* the empty cache exactly the first key is gone and the others are retrievable.
C8_EvictsLeastRecentlyUsed ==
    /\ Evicted # {} =>
           Evicted = {LeastRecent(recBefore, CacheKeys(lastOp.before))}
    /\ (onlyPuts /\ Len(puts) = Capacity + 1) =>
           /\ ~LRUGet(lru, puts[1]).ret.found
           /\ \A i \in 2..(Capacity + 1) : LRUGet(lru, puts[i]).ret.found

\* a put evicts right after a get that hit: the key read stays
C8_Witness ==
    /\ lastOp.op = "put"
    /\ Evicted # {}
    /\ lastOp.prevHit # <<>>
    /\ lastOp.prevHit \in CacheKeys(lru)
    /\ lastOp.prevHit = lastOp.before[Len(lastOp.before)].k

(***************************************************************************)
(* Properties of the application (Spec, FairSpec).                         *)
(***************************************************************************)
Live(w) == wrk[w].pc \notin {"none", "done"}
Rendered(n) == \E i \in 1..Len(log) : log[i].id = n
Queued(n) == \E i \in 1..Len(in_queue) : in_queue[i].id = n /\ in_queue[i].tag = "Line"

\* C1: at most one worker thread is live (able to pop from in_queue and to
\* call translate) at any time.
C1_SingleWorker == Cardinality({w \in Ids : Live(w)}) <= 1

\* C2: when translate failed for a Line, what the worker puts on out_queue is
\* an error signal, and what _process_queues appends for it is an error line,
\* whatever the checkbox says.
C2_FailureIsErrorSignal ==
    /\ \A i \in 1..Len(out_queue) :
          out_queue[i].failed => IsErrorSignal(out_queue[i].obj)
    /\ \A i \in 1..Len(log) :
          log[i].failed => StartsWith(log[i].text, ErrorTag)

\* C3: the worker and _process_queues treat as an error signal only what a
\* component created as one: what an adapter put as a Line is never forwarded
\* or rendered as an error.
C3_TaggedVariants ==
    /\ \A i \in 1..Len(out_queue) :
          IsErrorSignal(out_queue[i].obj) => out_queue[i].tag = "ErrorSignal"
    /\ \A i \in 1..Len(log) :
          (log[i].id # 0 /\ StartsWith(log[i].text, ErrorTag))
              => (log[i].tag = "ErrorSignal" \/ log[i].failed)

\* C4: while a session runs, no worker translates and no tick renders an item
\* that the adapter of an earlier session put.
C4_NoItemOfEarlierSession ==
    /\ \A w \in Ids :
          (running /\ wrk[w].pc \in {"translate", "extcall"})
              => wrk[w].item.sess >= self_adapter
    /\ \A i \in 1..Len(log) :
          (log[i].id # 0 /\ log[i].at # 0) => log[i].sess >= log[i].at

\* C9: the items are rendered in the order the adapters put them on in_queue,
\* each at most once.
C9_RenderedInArrivalOrder ==
    \A i, j \in 1..Len(log) :
        (i < j /\ log[i].id # 0 /\ log[j].id # 0) => log[i].id < log[j].id

\* the entries of out_queue and of the log that come from item n
Copies(n) ==
    Cardinality({i \in 1..Len(out_queue) : out_queue[i].id = n})
        + Cardinality({i \in 1..Len(log) : log[i].id = n})

\* C10: a Line on in_queue while the session runs is eventually rendered, unless
\* the session is stopped; and it gives one entry of out_queue, rendered once.
C10_LineEventuallyRendered ==
    /\ \A n \in 1..MaxItems : (running /\ Queued(n)) ~> (Rendered(n) \/ ~running)
    /\ [](\A n \in 1..MaxItems : Copies(n) <= 1)

\* a Line was rendered while the session whose adapter put it is running
C10_Witness ==
    \E i \in 1..Len(log) :
        /\ log[i].tag = "Line"
        /\ log[i].at = log[i].sess
        /\ running /\ self_adapter = log[i].sess

\* C5: the adapter thread and the worker thread of a session that was stopped
\* both terminate eventually.
C5_StoppedThreadsTerminate ==
    \A s \in Ids : (s \in stopped) ~> (adp[s].pc = "done" /\ wrk[s].pc = "done")

(***************************************************************************)
(* Properties of start and stop (LifeSpec).                                *)
(***************************************************************************)
\* C11: start called while running starts no thread and changes neither the
\* adapter, the translator nor the running flag (nor anything else); stop called
\* while idle changes nothing and appends nothing to the log; and after stop,
\* called once or right after another stop, the application is idle.
C11_StartStopIdempotent ==
    /\ (call.op = "start" /\ call.wasRunning) =>
           (call.threads = 0 /\ call.changed = {})
    /\ (call.op = "stop" /\ ~call.wasRunning) => call.changed = {}
    /\ call.op = "stop" => ~call.after

\* start was called while the second session was running
C11_Witness ==
    /\ call.op = "start" /\ call.wasRunning
    /\ \E i \in 1..Len(log) : log[i].text = SystemStopped
    /\ nStarts = MaxStarts

\* C12: a start called while idle with an invalid configuration (no credential,
\* no path or no such file, no bounding box or a malformed one) leaves running
\* false, starts no adapter thread and no worker thread, and sets no adapter.
C12_InvalidStartStaysIdle ==
    (call.op = "start" /\ call.invalid) =>
        /\ ~call.after
        /\ call.threads = 0
        /\ call.changed \subseteq {"translator"}

\* start found a credential and refused the source: only the Translator is new
C12_Witness ==
    /\ call.op = "start" /\ call.invalid
    /\ call.changed = {"translator"}
    /\ ~running

C14_LinesTrimmedNonEmpty ==
    \A i \in 1..Len(in_queue) :
        in_queue[i].tag = "Line" =>
            /\ in_queue[i].obj.s # <<>>
            /\ in_queue[i].obj.s = Strip(in_queue[i].obj.s)

\* the Lines adapter a put, in order (where no worker takes them from in_queue)
LinesOf(a) ==
    LET its == SelectSeq(in_queue, LAMBDA it : it.sess = a /\ it.tag = "Line")
    IN  [i \in 1..Len(its) |-> its[i].obj.s]

\* the newline-terminated lines of s, without their newlines
CompleteLines(s) ==
    LET parts == Split(s, "\n")
    IN  SubSeq(parts, 1, Len(parts) - 1)

\* what was appended to the file since adapter a opened it
Appended(a) == SubSeq(fdata, tail[a].began + 1, Len(fdata))

\* C15: the file-tail adapter puts one Line per newline-terminated line
\* appended: never more Lines than complete lines appended since it opened the
\* file, so nothing for a piece of a line whose newline has not arrived.
C15_OneLinePerCompleteLine ==
    \A a \in Ids :
        adp[a].kind = "file" => Len(LinesOf(a)) <= Len(CompleteLines(Appended(a)))

\* C18: what the file-tail adapter puts is, in order and once each, the
\* newline-terminated lines appended since it opened the file (trimmed): nothing
\* the file held before, no line twice, none skipped, none out of order.
C18_AppendedLinesOnceInOrder ==
    \A a \in Ids :
        adp[a].kind = "file" =>
            \E n \in 0..Len(CompleteLines(Appended(a))) :
                LinesOf(a) = [i \in 1..n |-> Strip(CompleteLines(Appended(a))[i])]

\* the Lines a clipboard adapter put, in order
ClipLinesOf(a) == IF adp[a].kind = "clipboard" THEN LinesOf(a) ELSE <<>>

\* C16: the clipboard adapter puts a read exactly when its trimmed text is not
\* empty and differs from the value it put last: two Lines it puts one after
\* the other are never equal, and the value it put last is the one it remembers.
C16_ClipboardNoRepeat ==
    \A a \in Ids :
        /\ \A i \in 1..(Len(ClipLinesOf(a)) - 1) : ClipLinesOf(a)[i] # ClipLinesOf(a)[i + 1]
        /\ (adp[a].kind = "clipboard" /\ ClipLinesOf(a) # <<>> /\ adp[a].last.found) =>
               Strip(adp[a].last.value) = ClipLinesOf(a)[Len(ClipLinesOf(a))]

\* C17: when all an OCR adapter has put so far are the lines of one read t (one
\* line or several), reading t once more puts nothing; and a line that comes
\* again after a different line is put again.
C17_IdenticalReadAddsNothing ==
    \A a \in Ids :
        adp[a].kind = "ocr" =>
            /\ \A t \in OcrTexts :
                  (LinesOf(a) = OcrLines(t) /\ adp[a].pc = "loop") =>
                      OcrEmit(adp[a].last.value, OcrLines(t)).out = <<>>
            /\ \A t, u \in OcrTexts :
                  LET l1 == OcrLines(t)
                      l2 == OcrLines(u)
                  IN  (Len(l1) = 1 /\ Len(l2) = 1 /\ l1 # l2) =>
                          LET e1 == OcrEmit(adp[a].last.value, l1)
                              e2 == OcrEmit(e1.last, l2)
                          IN  OcrEmit(e2.last, l1).out = l1

(***************************************************************************)
(* Properties of a file failure and of the target language.                *)
(***************************************************************************)
\* the history of every item that is on a queue, in a worker's hands or in the log
Entries ==
    {[id |-> in_queue[i].id, sess |-> in_queue[i].sess, tag |-> in_queue[i].tag] :
        i \in 1..Len(in_queue)}
    \cup {[id |-> out_queue[i].id, sess |-> out_queue[i].sess, tag |-> out_queue[i].tag] :
        i \in 1..Len(out_queue)}
    \cup {[id |-> log[i].id, sess |-> log[i].sess, tag |-> log[i].tag] :
        i \in {j \in 1..Len(log) : log[j].id # 0}}
    \cup {[id |-> wrk[w].item.id, sess |-> wrk[w].item.sess, tag |-> wrk[w].item.tag] :
        w \in {v \in Ids : wrk[v].item.id # 0}}

\* the error signals adapter a put that are still on in_queue
ErrorsWaiting(a) ==
    {i \in 1..Len(in_queue) : in_queue[i].sess = a /\ in_queue[i].tag = "ErrorSignal"}

\* C19: a file-tail adapter whose open or read fails puts one error signal and
\* ends: it puts nothing after it, and no second error signal. The step of the
\* failure leaves the running flag and the worker threads as they are. A worker
\* never translates the error signal; it puts the very same string on out_queue,
\* which _process_queues renders as an error line; and while the session runs, an
\* error signal waiting on in_queue is taken by a worker.
C19_FileFailure ==
    /\ [](\A a \in Ids :
            /\ Cardinality({e \in Entries : e.sess = a /\ e.tag = "ErrorSignal"}) <= 1
            /\ \A e \in Entries :
                  (e.sess = a /\ e.tag = "ErrorSignal") =>
                      /\ adp[a].pc = "done"
                      /\ \A x \in Entries : x.sess = a => x.id <= e.id)
    /\ [](/\ \A w \in Ids : wrk[w].item.tag # "ErrorSignal"
          /\ \A i \in 1..Len(out_queue) :
                out_queue[i].tag = "ErrorSignal" => out_queue[i].obj = AdapterError("file")
          /\ \A i \in 1..Len(log) :
                log[i].tag = "ErrorSignal" => log[i].text = ErrorTag \o AdapterError("file").s)
    /\ [][\A a \in Ids :
            (adp[a].pc \in {"open", "body"} /\ adp'[a].pc = "done") =>
                /\ in_queue' = Append(in_queue,
                                      InItem(AdapterError("file"), nItems + 1, a, "ErrorSignal"))
                /\ UNCHANGED <<running, wrk, out_queue>>]_vars
    /\ \A a \in Ids : (running /\ ErrorsWaiting(a) # {}) ~> (ErrorsWaiting(a) = {} \/ ~running)

\* the session runs on after its adapter failed, and the error signal was rendered
C19_Witness ==
    /\ running
    /\ adp[self_adapter].pc = "done" /\ ~adp[self_adapter].stop
    /\ wrk[self_adapter].pc \notin {"none", "done"}
    /\ \E i \in 1..Len(log) : log[i].tag = "ErrorSignal" /\ log[i].sess = self_adapter

\* the target language chosen at the start of the session running now
SessionLanguage == wrk[self_adapter].lang

\* C20: a pair (item, translated) put on out_queue while a session runs was
\* translated into the language chosen at that session's start: the worker asked
\* for that language, and a translation that came back names it.
C20_TranslatedIntoSessionLanguage ==
    [][(running /\ Len(out_queue') = Len(out_queue) + 1) =>
          LET o == out_queue'[Len(out_queue')]
          IN  o.obj.type = "tuple" =>
                  /\ o.lang = SessionLanguage
                  /\ ~o.failed => StartsWith(o.obj.trans, <<"[">> \o SessionLanguage \o <<"]">>)]_vars

====
